---- MODULE Spec2Model ----
(***************************************************************************)
(* The Sum-Mixture robust error model of libRSF                            *)
(* (include/error_models/SumMixture.h): one SumMixture object, its         *)
(* lifecycle (construction, clear, re-attachment, enable/disable) and      *)
(* weight() evaluated by several solver threads at once.                   *)
(*                                                                         *)
(* Numbers.  A double is held in fixed point with Unit steps per 1.0.      *)
(* exp, log and sqrt are computed on that grid (ExpFx, LogFx, SqrtFx) with *)
(* the rounding the grid forces; the three IEEE specials that the code can *)
(* produce (log(0) = -inf, -2 * -inf = +inf, sqrt of a negative = NaN) are *)
(* the values NegInf, PosInf and NaN.  The coordinates of raw errors and   *)
(* means are plain integers.                                               *)
(***************************************************************************)
EXTENDS Integers, Sequences, FiniteSets, TLC

(* ------------------------------ bounds -------------------------------- *)

\* Largest number of components of a mixture handed to the model.
MaxComponents == 2

\* Number of solver threads evaluating residuals (SolverOptions.num_threads).
NumThreads == 2

(* ------------------------- program constants -------------------------- *)

\* Template parameter Dim of the instantiation SumMix2.
Dim == 2

\* The 1e-10 of weight(), on the fixed-point grid: below its resolution.
Eps == 0

\* log(0 + 1e-10), the value of log(_Normalization + 1e-10) at _Normalization = 0.
LogEps == -23578

\* The "+ 10" of the special normalization.
SpecialOffset == 10

(* --------------------------- fixed point ------------------------------ *)

Unit == 2 ^ 10

PosInf == 2 ^ 30
NegInf == -(2 ^ 30)
NaN == 2 ^ 30 + 1

IsFinite(a) == a # PosInf /\ a # NegInf /\ a # NaN

MulFx(a, b) == (a * b) \div Unit

DivFx(a, b) == (a * Unit) \div b

\* round(Unit * exp(-k / 2)) for k = 0, 1, 2, ...; 0 beyond the table (underflow).
ExpTable ==
  <<1024, 621, 377, 228, 139, 84, 51, 31, 19, 11, 7, 4, 3, 2, 1, 1>>

\* exp(d) for d <= 0.
ExpFx(d) ==
  LET k == (-d) \div (Unit \div 2)
  IN IF k + 1 <= Len(ExpTable) THEN ExpTable[k + 1] ELSE 0

RECURSIVE Log2Frac(_, _)
\* The fractional bits of log2(y / Unit), Unit <= y < 2 * Unit, by squaring.
Log2Frac(y, b) ==
  IF b = 0 THEN 0
  ELSE LET sq == (y * y) \div Unit
       IN IF sq >= 2 * Unit THEN b + Log2Frac(sq \div 2, b \div 2)
          ELSE Log2Frac(sq, b \div 2)

RECURSIVE Log2Fx(_)
\* log2(x / Unit) for x >= 1.
Log2Fx(x) ==
  IF x >= 2 * Unit THEN Unit + Log2Fx(x \div 2)
  ELSE IF x < Unit THEN Log2Fx(x * 2) - Unit
  ELSE Log2Frac(x, Unit \div 2)

\* log(x): -inf at 0, NaN below, log2(x) * ln(2) above.
LogFx(x) ==
  IF x = 0 THEN NegInf
  ELSE IF x < 0 THEN NaN
  ELSE (Log2Fx(x) * 710) \div Unit

RECURSIVE ISqrtSearch(_, _, _)
ISqrtSearch(a, lo, hi) ==
  IF lo >= hi THEN lo
  ELSE LET mid == (lo + hi + 1) \div 2
       IN IF mid * mid <= a THEN ISqrtSearch(a, mid, hi)
          ELSE ISqrtSearch(a, lo, mid - 1)

\* sqrt(a): NaN below 0, +inf at +inf.
SqrtFx(a) ==
  IF a = NaN \/ a < 0 THEN NaN
  ELSE IF a = PosInf THEN PosInf
  ELSE ISqrtSearch(a * Unit, 0, 46340)

(* ----------------------------- vectors -------------------------------- *)

Vec(a, b) == [i \in 1..Dim |-> IF i = 1 THEN a ELSE b]

RECURSIVE SumTo(_, _)
SumTo(f, n) == IF n = 0 THEN 0 ELSE f[n] + SumTo(f, n - 1)

\* Eigen's squaredNorm().
squaredNorm(v) == SumTo([i \in 1..Dim |-> v[i] * v[i]], Dim)

\* The raw errors the cost functors hand to weight().
RawErrors == {Vec(2, 0), Vec(1, 3)}

(* ------------------------- Gaussian mixture --------------------------- *)

\* A component: mean, isotropic square-root information, weight (fixed point).
CompNear == [Mean |-> Vec(0, 0), SqrtInfo |-> 1, Weight |-> Unit \div 2]
CompFar == [Mean |-> Vec(2, 0), SqrtInfo |-> 2, Weight |-> Unit]
CompNull == [Mean |-> Vec(0, 1), SqrtInfo |-> 1, Weight |-> 0]

Components == {CompNear, CompFar, CompNull}

Mixtures == UNION {[1..k -> Components] : k \in 0..MaxComponents}

getNumberOfComponents(Mixture) == Len(Mixture)

\* SqrtInformation * (Error - Mean) of component n (0-based).
getExponentialPartOfComponent(Mixture, n, Error) ==
  [i \in 1..Dim |-> Mixture[n + 1].SqrtInfo * (Error[i] - Mixture[n + 1].Mean[i])]

\* Weight * det(SqrtInformation): the factor in front of the exponential.
getLinearPartOfComponent(Mixture, n, Error) ==
  Mixture[n + 1].Weight * (Mixture[n + 1].SqrtInfo ^ Dim)

\* The peak of component n's density: its linear part (the exponential is 1).
getMaximumOfComponent(Mixture, n) ==
  Mixture[n + 1].Weight * (Mixture[n + 1].SqrtInfo ^ Dim)

RECURSIVE MaxTo(_, _)
MaxTo(f, n) ==
  IF n = 1 THEN f[1]
  ELSE LET m == MaxTo(f, n - 1) IN IF f[n] > m THEN f[n] ELSE m

\* log(sum_i Scalings[i] * exp(Exponents[i])) with the maximum exponent
\* subtracted before exponentiating and added back after the log; at
\* least one entry.
ScaledLogSumExp(Exponents, Scalings) ==
  LET n == Len(Exponents)
      MaxExp == MaxTo(Exponents, n)
      Sum == SumTo([i \in 1..n |-> MulFx(Scalings[i], ExpFx(Exponents[i] - MaxExp))], n)
      LogSum == LogFx(Sum)
  IN IF IsFinite(LogSum) THEN LogSum + MaxExp ELSE LogSum

\* What the combinator returns for no entries at all: the sum is 0 and its
\* log -inf; the maximum of no exponents is unspecified, and added to -inf
\* it leaves -inf or gives NaN.
EmptyCombination == {NegInf, NaN}

(* ------------------------ the SumMixture object ----------------------- *)

Threads == 1..NumThreads

VARIABLES
  SpecialNormalization, \* template parameter: TRUE for the SumMix*Special types
  this,                 \* the object: [Mixture, Normalization, Enable]
  lifecycle,            \* "default", "attached", "cleared" or "reattached"
  attached,             \* the mixture last handed to a constructor
  pc,                   \* per thread: where it is inside weight()
  RawError,             \* per thread: the argument of its call
  nComponent,           \* per thread: the loop counter
  Exponents,            \* per buffer: the local vector Exponents
  Scalings,             \* per buffer: the local vector Scalings
  Error,                \* per thread: the output array of its call
  Ret                   \* per thread: the value its call returned

vars ==
  <<SpecialNormalization, this, lifecycle, attached, pc, RawError, nComponent,
    Exponents, Scalings, Error, Ret>>

NoVec == <<>>

\* SumMixture(): normalization 0 and a default-constructed (empty) mixture;
\* the base class starts enabled.
SumMixtureDefault ==
  [Mixture |-> <<>>, Normalization |-> 0, Enable |-> TRUE]

RECURSIVE SumLoop(_, _, _)
\* for (nComponent = n; nComponent < NumberOfComponents; ++nComponent) acc += max
SumLoop(Mixture, n, acc) ==
  IF n < getNumberOfComponents(Mixture)
  THEN SumLoop(Mixture, n + 1, acc + getMaximumOfComponent(Mixture, n))
  ELSE acc

RECURSIVE MaxLoop(_, _, _, _)
\* for (nComponent = n; nComponent < last; ++nComponent) acc = std::max(acc, max)
MaxLoop(Mixture, n, last, acc) ==
  IF n < last
  THEN LET m == getMaximumOfComponent(Mixture, n)
       IN MaxLoop(Mixture, n + 1, last, IF acc < m THEN m ELSE acc)
  ELSE acc

NormalizationStandard_SkipFirst(Mixture) == SumLoop(Mixture, 1, 0)

\* The "original version": the sum of the components' maxima.
NormalizationStandard(Mixture) == SumLoop(Mixture, 0, 0)

NormalizationSpecial_SkipLast(Mixture) ==
  LET K == getNumberOfComponents(Mixture)
  IN MaxLoop(Mixture, 1, K - 1, getMaximumOfComponent(Mixture, 0)) * K
       + SpecialOffset * Unit

NormalizationSpecial_FirstOnly(Mixture) ==
  getMaximumOfComponent(Mixture, 0) * getNumberOfComponents(Mixture)
    + SpecialOffset * Unit

NormalizationSpecial_NoOffset(Mixture) ==
  LET K == getNumberOfComponents(Mixture)
  IN MaxLoop(Mixture, 1, K, getMaximumOfComponent(Mixture, 0)) * K

\* The "version for Reviewer 3": the largest maximum, times the number of
\* components, plus 10.  Reads component 0: at least one component.
NormalizationSpecial(Mixture) ==
  LET K == getNumberOfComponents(Mixture)
  IN MaxLoop(Mixture, 1, K, getMaximumOfComponent(Mixture, 0)) * K
       + SpecialOffset * Unit

\* _Mixture = Mixture, then the normalization of the strategy compiled in.
addMixture(obj, Mixture, Special) ==
  [obj EXCEPT !.Mixture = Mixture,
              !.Normalization = IF Special THEN NormalizationSpecial(Mixture)
                                ELSE NormalizationStandard(Mixture)]

\* explicit SumMixture(const MixtureType &Mixture)
SumMixtureFrom(Mixture, Special) == addMixture(SumMixtureDefault, Mixture, Special)

clear_KeepMixture(obj) == [obj EXCEPT !.Normalization = 0]

clear_KeepNormalization(obj) == [obj EXCEPT !.Mixture = <<>>]

clear(obj) == [obj EXCEPT !.Normalization = 0, !.Mixture = <<>>]

\* The enable switch of the ErrorModel base class.
setEnable(obj, flag) == [obj EXCEPT !.Enable = flag]

\* A mixture a constructor may be given: the special strategy reads
\* component 0, so it needs one.
Attachable(Mixture, Special) == Special => getNumberOfComponents(Mixture) >= 1

(* ------------------------------ weight() ------------------------------ *)

Exponent_NoHalf(Mixture, n, Err) ==
  -(squaredNorm(getExponentialPartOfComponent(Mixture, n, Err)) * Unit + Eps)

\* Exponents(nComponent) = -0.5 * (exponentialPart.squaredNorm() + 1e-10)
Exponent(Mixture, n, Err) ==
  -((squaredNorm(getExponentialPartOfComponent(Mixture, n, Err)) * Unit + Eps) \div 2)

\* Scalings(nComponent) = T(linearPart)
Scaling(Mixture, n, Err) == getLinearPartOfComponent(Mixture, n, Err)

\* log(_Normalization + 1e-10)
LogNormalization(N) == IF N = 0 THEN LogEps ELSE LogFx(N + Eps)

\* -2.0 * (L - log(_Normalization + 1e-10)), L the combinator's value
Radicand(L, N) ==
  IF L = NaN THEN NaN
  ELSE IF L = NegInf THEN PosInf
  ELSE IF L = PosInf THEN NegInf
  ELSE -2 * (L - LogNormalization(N))

Magnitude_NoDim(L, N) == SqrtFx(Radicand(L, N))

\* sqrt(-2.0 * (L - log(_Normalization + 1e-10))) / sqrt(Dim)
Magnitude(L, N) ==
  LET root == SqrtFx(Radicand(L, N))
  IN IF IsFinite(root) THEN DivFx(root, SqrtFx(Dim * Unit)) ELSE root

\* ErrorMap.fill(m)
Fill(m) == [i \in 1..Dim |-> m]

PassThrough_Norm(Raw) == Fill(squaredNorm(Raw))

\* ErrorMap = RawError
PassThrough(Raw) == [i \in 1..Dim |-> Raw[i]]

\* What the combinator can return for the object's mixture at Err.
Combination(Mixture, Err) ==
  LET K == getNumberOfComponents(Mixture)
  IN IF K = 0 THEN EmptyCombination
     ELSE {ScaledLogSumExp([i \in 1..K |-> Exponent(Mixture, i - 1, Err)],
                           [i \in 1..K |-> Scaling(Mixture, i - 1, Err)])}

\* The outputs of one call of weight() run on its own.
weight(obj, Raw) ==
  IF obj.Enable
  THEN {Fill(Magnitude(L, obj.Normalization)) : L \in Combination(obj.Mixture, Raw)}
  ELSE {PassThrough(Raw)}

SharedBuffer(t) == 1

\* Scalings and Exponents are locals of the call: each call has its own.
LocalBuffer(t) == t

\* v(i) = x on a vector of K entries
Put(v, K, i, x) ==
  [j \in 1..K |-> IF j = i THEN x ELSE IF j \in DOMAIN v THEN v[j] ELSE 0]

AllIdle == \A t \in Threads : pc[t] = "idle"

\* Lines 74-84: the call is entered, _Enable and the size are read, the
\* local vectors are allocated.
WeightBegin(t, Raw) ==
  /\ pc[t] = "idle"
  /\ RawError' = [RawError EXCEPT ![t] = Raw]
  /\ IF this.Enable
     THEN LET K == getNumberOfComponents(this.Mixture)
          IN /\ Exponents' = [Exponents EXCEPT ![LocalBuffer(t)] = [i \in 1..K |-> 0]]
             /\ Scalings' = [Scalings EXCEPT ![LocalBuffer(t)] = [i \in 1..K |-> 0]]
             /\ pc' = [pc EXCEPT ![t] = IF K = 0 THEN "combine" ELSE "loop"]
     ELSE /\ pc' = [pc EXCEPT ![t] = "pass"]
          /\ UNCHANGED <<Exponents, Scalings>>
  /\ nComponent' = [nComponent EXCEPT ![t] = 0]
  /\ UNCHANGED <<SpecialNormalization, this, lifecycle, attached, Error, Ret>>

\* Lines 87-91: one round of the loop over the components.
WeightLoop(t) ==
  /\ pc[t] = "loop"
  /\ LET K == getNumberOfComponents(this.Mixture)
         n == nComponent[t]
         b == LocalBuffer(t)
     IN /\ Exponents' = [Exponents EXCEPT
                           ![b] = Put(@, K, n + 1, Exponent(this.Mixture, n, RawError[t]))]
        /\ Scalings' = [Scalings EXCEPT
                          ![b] = Put(@, K, n + 1, Scaling(this.Mixture, n, RawError[t]))]
        /\ nComponent' = [nComponent EXCEPT ![t] = n + 1]
        /\ pc' = [pc EXCEPT ![t] = IF n + 1 < K THEN "loop" ELSE "combine"]
  /\ UNCHANGED <<SpecialNormalization, this, lifecycle, attached, RawError, Error, Ret>>

\* Lines 94 and 103: combine, fill the output, return true.
WeightCombine(t) ==
  /\ pc[t] = "combine"
  /\ LET K == getNumberOfComponents(this.Mixture)
         b == LocalBuffer(t)
         \* the two vectors as the call reads them: K entries each
         E == Put(Exponents[b], K, 0, 0)
         S == Put(Scalings[b], K, 0, 0)
     IN \E L \in (IF K = 0 THEN EmptyCombination ELSE {ScaledLogSumExp(E, S)}) :
          Error' = [Error EXCEPT ![t] = Fill(Magnitude(L, this.Normalization))]
  /\ Ret' = [Ret EXCEPT ![t] = TRUE]
  /\ pc' = [pc EXCEPT ![t] = "done"]
  /\ UNCHANGED <<SpecialNormalization, this, lifecycle, attached, RawError,
                 nComponent, Exponents, Scalings>>

\* Lines 96-103: the disabled branch.
WeightPass(t) ==
  /\ pc[t] = "pass"
  /\ Error' = [Error EXCEPT ![t] = PassThrough(RawError[t])]
  /\ Ret' = [Ret EXCEPT ![t] = TRUE]
  /\ pc' = [pc EXCEPT ![t] = "done"]
  /\ UNCHANGED <<SpecialNormalization, this, lifecycle, attached, RawError,
                 nComponent, Exponents, Scalings>>

\* The caller takes the result; the call's locals and arguments are gone.
WeightReturn(t) ==
  /\ pc[t] = "done"
  /\ pc' = [pc EXCEPT ![t] = "idle"]
  /\ RawError' = [RawError EXCEPT ![t] = NoVec]
  /\ Error' = [Error EXCEPT ![t] = NoVec]
  /\ Ret' = [Ret EXCEPT ![t] = FALSE]
  /\ nComponent' = [nComponent EXCEPT ![t] = 0]
  /\ Exponents' = [Exponents EXCEPT ![LocalBuffer(t)] = <<>>]
  /\ Scalings' = [Scalings EXCEPT ![LocalBuffer(t)] = <<>>]
  /\ UNCHANGED <<SpecialNormalization, this, lifecycle, attached>>

(* ------------------------- single-threaded setup ---------------------- *)

\* Model.clear()
Clear ==
  /\ AllIdle
  /\ this' = clear(this)
  /\ lifecycle' = "cleared"
  /\ UNCHANGED <<SpecialNormalization, attached, pc, RawError, nComponent,
                 Exponents, Scalings, Error, Ret>>

\* Model = SumMixture(Mixture): the object is built anew from a mixture.
Attach(Mixture) ==
  /\ AllIdle
  /\ Attachable(Mixture, SpecialNormalization)
  /\ this' = SumMixtureFrom(Mixture, SpecialNormalization)
  /\ lifecycle' = IF lifecycle = "cleared" /\ Mixture # attached
                  THEN "reattached" ELSE "attached"
  /\ attached' = Mixture
  /\ UNCHANGED <<SpecialNormalization, pc, RawError, nComponent, Exponents,
                 Scalings, Error, Ret>>

\* enable() / disable()
SetEnable(flag) ==
  /\ AllIdle
  /\ this.Enable # flag
  /\ this' = setEnable(this, flag)
  /\ UNCHANGED <<SpecialNormalization, lifecycle, attached, pc, RawError,
                 nComponent, Exponents, Scalings, Error, Ret>>

(* --------------------------- specification ---------------------------- *)

Init ==
  /\ SpecialNormalization \in BOOLEAN
  /\ \/ /\ this = SumMixtureDefault
        /\ lifecycle = "default"
        /\ attached = <<>>
     \/ \E Mixture \in Mixtures :
          /\ Attachable(Mixture, SpecialNormalization)
          /\ this = SumMixtureFrom(Mixture, SpecialNormalization)
          /\ lifecycle = "attached"
          /\ attached = Mixture
  /\ pc = [t \in Threads |-> "idle"]
  /\ RawError = [t \in Threads |-> NoVec]
  /\ nComponent = [t \in Threads |-> 0]
  /\ Exponents = [t \in Threads |-> <<>>]
  /\ Scalings = [t \in Threads |-> <<>>]
  /\ Error = [t \in Threads |-> NoVec]
  /\ Ret = [t \in Threads |-> FALSE]

Next ==
  \/ \E t \in Threads : \E Raw \in RawErrors : WeightBegin(t, Raw)
  \/ \E t \in Threads : WeightLoop(t)
  \/ \E t \in Threads : WeightCombine(t)
  \/ \E t \in Threads : WeightPass(t)
  \/ \E t \in Threads : WeightReturn(t)
  \/ Clear
  \/ \E Mixture \in Mixtures : Attach(Mixture)
  \/ \E flag \in BOOLEAN : SetEnable(flag)

Spec == Init /\ [][Next]_vars

(* ------------------------------ claims -------------------------------- *)

Attached == lifecycle \in {"attached", "reattached"}

Abs(a) == IF a < 0 THEN -a ELSE a

\* The rounding of sqrt and of the division by sqrt(Dim), carried to Dim * m^2.
Slack(m) == (2 * Dim * m * (2 + m \div Unit)) \div Unit + 2

\* Dim * m^2
SquaredSum(m) == (Dim * m * m) \div Unit

RECURSIVE SumOver(_, _)
SumOver(S, f) ==
  IF S = {} THEN 0
  ELSE LET i == CHOOSE j \in S : TRUE IN f[i] + SumOver(S \ {i}, f)

Indices(Mixture) == 0..(getNumberOfComponents(Mixture) - 1)

Maxima(Mixture) == [i \in Indices(Mixture) |-> getMaximumOfComponent(Mixture, i)]

Largest(Mixture) ==
  CHOOSE v \in {Maxima(Mixture)[i] : i \in Indices(Mixture)} :
    \A i \in Indices(Mixture) : Maxima(Mixture)[i] <= v

\* C1: a call of weight() made while the model is disabled writes exactly the
\* elements of RawError into Error and returns true, whatever the mixture and
\* the normalization constant are.
C1_DisabledIdentity ==
  \A t \in Threads :
    (pc[t] = "done" /\ ~this.Enable) =>
      /\ DOMAIN Error[t] = 1..Dim
      /\ \A i \in 1..Dim : Error[t][i] = RawError[t][i]
      /\ Ret[t] = TRUE

C1_Witness ==
  \E t \in Threads :
    /\ pc[t] = "done" /\ ~this.Enable
    /\ RawError[t] = Vec(1, 3)
    /\ getNumberOfComponents(this.Mixture) = 0 /\ this.Normalization = 0

\* C2: no step of weight() changes the model, and a call that finishes, however
\* its steps were interleaved with those of the other threads' calls, returns
\* an output the call returns when run alone on the same model and raw error.
C2_ConcurrentWeight ==
  [][(pc' # pc) =>
       /\ this' = this
       /\ SpecialNormalization' = SpecialNormalization
       /\ \A t \in Threads :
            (pc'[t] = "done" /\ pc[t] # "done") =>
              (Error'[t] \in weight(this, RawError[t]) /\ Ret'[t] = TRUE)]_vars

C2_Witness ==
  \E t, u \in Threads :
    /\ pc[t] = "done" /\ pc[u] = "combine"
    /\ RawError[t] # RawError[u]
    /\ this.Enable /\ getNumberOfComponents(this.Mixture) >= 2

\* C3: after an enabled call all Dim elements of the output are the same scalar
\* m, m is sqrt(R) / sqrt(Dim) for R = -2 * (L - log(N + 1e-10)) with L the
\* combinator's value over the components, and Dim * m^2 is R up to rounding.
C3_EqualDistribution ==
  \A t \in Threads :
    (pc[t] = "done" /\ this.Enable) =>
      \E L \in Combination(this.Mixture, RawError[t]) :
        LET R == Radicand(L, this.Normalization)
            root == SqrtFx(R)
            rootDim == SqrtFx(Dim * Unit)
            m == Error[t][1]
        IN /\ DOMAIN Error[t] = 1..Dim
           /\ \A i \in 1..Dim : Error[t][i] = m
           /\ IF IsFinite(root)
              THEN /\ m * rootDim <= root * Unit
                   /\ root * Unit < (m + 1) * rootDim
                   /\ Abs(SquaredSum(m) - R) <= Slack(m)
              ELSE m = root

C3_Witness ==
  \E t \in Threads :
    /\ pc[t] = "done" /\ this.Enable
    /\ getNumberOfComponents(this.Mixture) >= 2
    /\ RawError[t] = Vec(1, 3)
    /\ IsFinite(Error[t][1]) /\ Error[t][1] > Unit

\* C4 as stated: a model built from a mixture with at least one component has
\* a normalization constant greater than 0, under either strategy.
C4_Original ==
  (Attached /\ getNumberOfComponents(this.Mixture) >= 1) => this.Normalization > 0

\* C4: for a model built from a mixture with at least one component, the
\* normalization constant is greater than 0 under the special strategy; under
\* the standard strategy it is never negative and is greater than 0 exactly
\* when some component has a maximum greater than 0.
C4_NormalizationSign ==
  (Attached /\ getNumberOfComponents(this.Mixture) >= 1) =>
    /\ SpecialNormalization => this.Normalization > 0
    /\ ~SpecialNormalization =>
         /\ this.Normalization >= 0
         /\ this.Normalization > 0 <=>
              \E i \in Indices(this.Mixture) : Maxima(this.Mixture)[i] > 0

C4_Witness ==
  /\ Attached /\ ~SpecialNormalization
  /\ getNumberOfComponents(this.Mixture) >= 1
  /\ this.Normalization = 0

\* C5: a model built with the standard strategy from K >= 0 components has as
\* normalization constant the sum of maximumOfComponent(i) over every index
\* i in 0..K-1, each once (0 for K = 0).
C5_StandardNormalization ==
  (Attached /\ ~SpecialNormalization) =>
    this.Normalization = SumOver(Indices(this.Mixture), Maxima(this.Mixture))

C5_Witness ==
  /\ Attached /\ ~SpecialNormalization
  /\ getNumberOfComponents(this.Mixture) >= 2
  /\ Maxima(this.Mixture)[0] > 0
  /\ Maxima(this.Mixture)[1] > Maxima(this.Mixture)[0]

\* C6: a model built with the special strategy from K >= 1 components has as
\* normalization constant the largest maximumOfComponent(i) over every index
\* i in 0..K-1, times K, plus 10.
C6_SpecialNormalization ==
  (Attached /\ SpecialNormalization) =>
    /\ getNumberOfComponents(this.Mixture) >= 1
    /\ this.Normalization =
         Largest(this.Mixture) * getNumberOfComponents(this.Mixture) + 10 * Unit

C6_Witness ==
  /\ Attached /\ SpecialNormalization
  /\ LET K == getNumberOfComponents(this.Mixture)
     IN /\ K >= 2
        /\ Maxima(this.Mixture)[0] > 0
        /\ Maxima(this.Mixture)[K - 1] > Maxima(this.Mixture)[0]

\* The object built from the components of Mixture taken in the order p.
Reordered(Mixture, p) ==
  SumMixtureFrom([i \in 1..getNumberOfComponents(Mixture) |-> Mixture[p[i]]],
                 SpecialNormalization)

\* C7: a model built from the same components in another order has the same
\* normalization constant, and every enabled call of weight that finished, for
\* whichever raw error, returned the output weight gives on that model.
C7_PermutationInvariance ==
  Attached =>
    \A p \in Permutations(1..getNumberOfComponents(this.Mixture)) :
      LET other == Reordered(this.Mixture, p)
      IN /\ other.Normalization = this.Normalization
         /\ \A t \in Threads :
              (pc[t] = "done" /\ this.Enable) => Error[t] \in weight(other, RawError[t])

C7_Witness ==
  /\ Attached
  /\ getNumberOfComponents(this.Mixture) >= 2
  /\ Maxima(this.Mixture)[0] # Maxima(this.Mixture)[1]
  /\ this.Mixture[1].Mean # this.Mixture[2].Mean
  /\ \E t \in Threads :
       pc[t] = "done" /\ this.Enable /\ RawError[t] = Vec(1, 3)

\* A finished enabled call on a model of one component of weight 1.
SingleComponentCall(t) ==
  /\ pc[t] = "done" /\ this.Enable /\ Attached
  /\ getNumberOfComponents(this.Mixture) = 1
  /\ this.Mixture[1].Weight = Unit

\* Dim * m^2 is the squared norm of exponentialPart(0, x), up to rounding.
GaussianCost(t) ==
  LET q == squaredNorm(getExponentialPartOfComponent(this.Mixture, 0, RawError[t])) * Unit
      m == Error[t][1]
  IN IsFinite(m) /\ Abs(SquaredSum(m) - q) <= Slack(m)

\* C8 as stated: under either strategy the squared cost of a model of one
\* component of weight 1 is the Gaussian cost of that component.
C8_Original ==
  \A t \in Threads : SingleComponentCall(t) => GaussianCost(t)

\* C8: under the standard strategy the squared cost Dim * m^2 of a model of one
\* component of weight 1 is the squared norm of exponentialPart(0, x); the
\* component's scale and the normalization constant cancel.
C8_SingleComponent ==
  \A t \in Threads :
    (SingleComponentCall(t) /\ ~SpecialNormalization) => GaussianCost(t)

C8_Witness ==
  \E t \in Threads :
    /\ SingleComponentCall(t) /\ ~SpecialNormalization
    /\ this.Mixture[1].SqrtInfo = 2
    /\ RawError[t] = Vec(1, 3)

\* C9 as stated: the mixture of the model has at least one component in every
\* reachable state.
C9_Original == getNumberOfComponents(this.Mixture) >= 1

\* C9: the mixture of the model has at least one component exactly when the
\* model was last built from a mixture of at least one component and not
\* cleared since; after default construction, clear, or construction from an
\* empty mixture it has none.
C9_NonEmptyWhenAttached ==
  getNumberOfComponents(this.Mixture) >= 1 <=>
    (Attached /\ getNumberOfComponents(attached) >= 1)

C9_Witness ==
  \E t \in Threads :
    /\ pc[t] = "combine" /\ this.Enable
    /\ lifecycle = "cleared"
    /\ getNumberOfComponents(attached) >= 1
    /\ getNumberOfComponents(this.Mixture) = 0

\* C10: after clear the normalization constant is 0 and the mixture has no
\* component; a cleared model attached to a different mixture holds exactly
\* that mixture and the normalization constant of its strategy for it.
C10_ClearAndReattach ==
  /\ lifecycle = "cleared" =>
       (this.Normalization = 0 /\ getNumberOfComponents(this.Mixture) = 0)
  /\ lifecycle = "reattached" =>
       /\ this.Mixture = attached
       /\ this.Normalization =
            IF SpecialNormalization
            THEN Largest(attached) * getNumberOfComponents(attached) + 10 * Unit
            ELSE SumOver(Indices(attached), Maxima(attached))

C10_Witness ==
  /\ lifecycle = "reattached"
  /\ getNumberOfComponents(this.Mixture) >= 1
  /\ this.Normalization > 0

====
